---- MODULE Spec2Model ----
(***************************************************************************)
(* A model of src/javascript-langchain/app.js, which holds two scripts:    *)
(*   - the "loader"    (lines 1-186): checks GITHUB_TOKEN, creates a        *)
(*     MemoryVectorStore and loads two Markdown files into it;             *)
(*   - the "inspector" (lines 188-308): checks GITHUB_TOKEN, embeds three   *)
(*     sentences one after the other and prints their cosine similarities. *)
(* Strings the code inspects (error messages, response bodies, paths) are  *)
(* sequences of words; numbers the code divides are kept exact.            *)
(***************************************************************************)
EXTENDS Integers, Sequences, FiniteSets, TLC

VARIABLES
    script,         \* which of the two scripts runs: "loader" | "inspector" | "none"
    token,          \* process.env.GITHUB_TOKEN
    cwd,            \* process.cwd(), a sequence of path words
    pc,             \* position of main
    exitCode,       \* -1 while the process runs, else its exit status
    console,        \* what was printed, in order
    filesRead,      \* files fs.readFileSync returned the contents of
    storeCreated,   \* MemoryVectorStore.fromTexts has returned
    memoryVectors,  \* vectorStore.memoryVectors
    storeBefore,    \* memoryVectors when the running loadDocument was called
    loadIdx,        \* which document main is loading (1 or 2)
    docIds,         \* what loadDocument returned for each document
    vectors,        \* the inspector's vectors array
    sims,           \* the inspector's sim12, sim23, sim31
    calls,          \* every call of fetchGithubEmbedding, in the order made
    inflight,       \* indices of calls whose HTTP request has no reply yet
    batchTexts,     \* the argument of the running embedDocuments call
    settled,        \* Promise.all's slots: outcome per input position
    arrived,        \* number of fulfilled slots of the running Promise.all
    batchResult,    \* how the embedDocuments promise settled
    vectorA,        \* cosineSimilarity's first argument
    vectorB,        \* cosineSimilarity's second argument
    simAB,          \* outcome of cosineSimilarity(vectorA, vectorB)
    simBA           \* outcome of cosineSimilarity(vectorB, vectorA)

vars == <<script, token, cwd, pc, exitCode, console, filesRead, storeCreated,
          memoryVectors, storeBefore, loadIdx, docIds, vectors, sims, calls,
          inflight, batchTexts, settled, arrived, batchResult,
          vectorA, vectorB, simAB, simBA>>

mainVars == <<script, token, cwd, pc, exitCode, console, filesRead, storeCreated,
              memoryVectors, storeBefore, loadIdx, docIds, vectors, sims>>
netVars == <<calls, inflight>>
batchVars == <<batchTexts, settled, arrived, batchResult>>
cosineVars == <<vectorA, vectorB, simAB, simBA>>

----
\* Bounds of the model.
MaxDim == 2        \* longest vector handed to cosineSimilarity
MaxVal == 1        \* vector components range over -MaxVal..MaxVal
MaxBatch == 3      \* longest input of embedDocuments

----
\* Strings as sequences of words.

\* String.prototype.toLowerCase on one word.
LowerWord(w) ==
    CASE w = "Token" -> "token"
      [] w = "Too" -> "too"
      [] w = "Many" -> "many"
      [] w = "Requests" -> "requests"
      [] w = "Payload" -> "payload"
      [] w = "Large" -> "large"
      [] w = "Unauthorized" -> "unauthorized"
      [] w = "Bad" -> "bad"
      [] w = "Internal" -> "internal"
      [] w = "Server" -> "server"
      [] w = "Error" -> "error"
      [] w = "GitHub" -> "github"
      [] w = "Models" -> "models"
      [] w = "API" -> "api"
      [] w = "ENOENT:" -> "enoent:"
      [] w = "HealthInsuranceBrochure.md" -> "healthinsurancebrochure.md"
      [] w = "EmployeeHandbook.md" -> "employeehandbook.md"
      [] OTHER -> w

toLowerCase(s) == [i \in 1..Len(s) |-> LowerWord(s[i])]

\* String.prototype.includes: the phrase occurs contiguously.
includes(s, phrase) ==
    \E i \in 1..(Len(s) - Len(phrase) + 1) :
        SubSeq(s, i, i + Len(phrase) - 1) = phrase

\* `${response.status}`
StatusText(status) == ToString(status)

----
\* The remote endpoint and the file system: what they may answer.

Brochure == "HealthInsuranceBrochure.md"
Handbook == "EmployeeHandbook.md"
FileNames == <<Brochure, Handbook>>

sentences == <<"The canine barked loudly.", "The dog made a noise.",
               "The electron spins rapidly.">>

\* fs.readFileSync(filePath, "utf-8") of a readable file.
FileText(fileName) == IF fileName = Brochure THEN "brochure text" ELSE "handbook text"

\* Embeddings the endpoint may return (data.data[0].embedding).
EndpointVectors == { <<1, 0>>, <<0, 1>>, <<0, 0>>, <<1>> }

NoHeader == [kind |-> "null", n |-> 0]
\* Retry-After: absent, empty, delta-seconds, an HTTP-date (n seconds from
\* now), or text that is neither.
RetryAfterHeaders ==
    { NoHeader, [kind |-> "empty", n |-> 0],
      [kind |-> "seconds", n |-> 0], [kind |-> "seconds", n |-> 30],
      [kind |-> "date", n |-> -60], [kind |-> "date", n |-> 60],
      [kind |-> "garbage", n |-> 0] }

ErrorBodies(status) ==
    CASE status = 413 -> { <<"Payload", "Too", "Large">>,
                           <<"maximum", "context", "length", "exceeded">> }
      [] status = 429 -> { <<"Too", "Many", "Requests">>,
                           <<"Token", "rate", "limit", "exceeded">> }
      [] status = 401 -> { <<"Unauthorized">>, <<"Bad", "token">> }
      [] OTHER -> { <<"Internal", "Server", "Error">> }

ErrorStatuses == {401, 413, 429, 500}

OkReplies ==
    { [kind |-> "response", status |-> 200, retryAfter |-> NoHeader,
       body |-> <<>>, embedding |-> v] : v \in EndpointVectors }

ErrorReplies ==
    UNION { { [kind |-> "response", status |-> s, retryAfter |-> h,
               body |-> b, embedding |-> <<>>] :
              h \in (IF s = 429 THEN RetryAfterHeaders ELSE {NoHeader}),
              b \in ErrorBodies(s) } : s \in ErrorStatuses }

\* fetch() itself rejecting: no response at all.
NetworkError == [kind |-> "reject", status |-> 0, retryAfter |-> NoHeader,
                 body |-> <<>>, embedding |-> <<>>]

NoReply == [kind |-> "none", status |-> 0, retryAfter |-> NoHeader,
            body |-> <<>>, embedding |-> <<>>]

Replies == OkReplies \cup ErrorReplies \cup {NetworkError}

----
\* Outcomes of a call: it is pending, returned a value, threw an error, or
\* (in no version of the code as written) asked for the request to be re-sent.
NoError == [name |-> "", message |-> <<>>]
Pending == [kind |-> "pending", value |-> <<>>, error |-> NoError, log |-> <<>>]
Return(v, log) == [kind |-> "return", value |-> v, error |-> NoError, log |-> log]
Throw(name, message, log) ==
    [kind |-> "throw", value |-> <<>>,
     error |-> [name |-> name, message |-> message], log |-> log]
Retry(log) == [kind |-> "retry", value |-> <<>>, error |-> NoError, log |-> log]

Log(tag, about) == [tag |-> tag, about |-> about]

\* response.ok
ResponseOk(reply) == reply.status >= 200 /\ reply.status <= 299

\* Number(retryAfter): a number, or NaN.
NumberOf(h) == IF h.kind = "seconds" THEN [nan |-> FALSE, n |-> h.n]
               ELSE [nan |-> TRUE, n |-> 0]

\* Math.ceil((new Date(retryAfter) - now) / 1000): a number, or NaN.  A bare
\* "0" parses as a date in the past.
DateDiff(h) == CASE h.kind = "date" -> [nan |-> FALSE, n |-> h.n]
                 [] h.kind = "seconds" -> [nan |-> FALSE, n |-> -1]
                 [] OTHER -> [nan |-> TRUE, n |-> 0]

\* The waitMsg of the 429 branch: "seconds", "date" or "" (none).
WaitMsg(h) ==
    IF h.kind \in {"null", "empty"} THEN ""
    ELSE IF ~NumberOf(h).nan /\ NumberOf(h).n > 0 THEN "seconds"
    ELSE IF ~DateDiff(h).nan /\ DateDiff(h).n > 0 THEN "date"
    ELSE ""

\* The 429 branch's console.error.
RateLimitLog(reply) ==
    IF reply.status = 429
    THEN <<Log("rateLimited", IF WaitMsg(reply.retryAfter) = ""
                              THEN "a few minutes"
                              ELSE WaitMsg(reply.retryAfter))>>
    ELSE <<>>

ApiErrorMessage(reply) ==
    <<"GitHub", "Models", "API", "error:", StatusText(reply.status)>> \o reply.body

\* fetchGithubEmbedding of the loader, from the reply of its one fetch() on.
\* A response that arrived is taken to have a readable body (response.text()
\* and response.json() resolve); a transport failure is the NetworkError reply.
fetchGithubEmbeddingRetrying(reply) ==
    IF reply.kind = "reject"
    THEN Throw("TypeError", <<"fetch", "failed">>, <<>>)
    ELSE IF ~ResponseOk(reply)
    THEN IF reply.status = 429
         THEN Retry(RateLimitLog(reply))
         ELSE Throw("Error", ApiErrorMessage(reply), <<>>)
    ELSE Return(reply.embedding, <<>>)

fetchGithubEmbedding(reply) ==
    IF reply.kind = "reject"
    THEN Throw("TypeError", <<"fetch", "failed">>, <<>>)
    ELSE IF ~ResponseOk(reply)
    THEN Throw("Error", ApiErrorMessage(reply), RateLimitLog(reply))
    ELSE Return(reply.embedding, <<>>)

\* fetchGithubEmbedding of the inspector: the same without the 429 report.
fetchGithubEmbeddingInspector(reply) ==
    IF reply.kind = "reject"
    THEN Throw("TypeError", <<"fetch", "failed">>, <<>>)
    ELSE IF ~ResponseOk(reply)
    THEN Throw("Error", ApiErrorMessage(reply), <<>>)
    ELSE Return(reply.embedding, <<>>)

----
\* cosineSimilarity (both scripts define it identically).

\* A score dot / (sqrt(normA) * sqrt(normB)) is kept exact: its sign and the
\* reduced fraction num/den of its square; NaN and +-Infinity are values too.
NaN == [kind |-> "NaN", sign |-> 0, num |-> 0, den |-> 0]
Infinity(sign) == [kind |-> "Infinity", sign |-> sign, num |-> 0, den |-> 0]
Finite(sign, num, den) == [kind |-> "finite", sign |-> sign, num |-> num, den |-> den]
Zero == Finite(0, 0, 1)

Sign(x) == IF x > 0 THEN 1 ELSE IF x < 0 THEN -1 ELSE 0

RECURSIVE GCD(_, _)
GCD(a, b) == IF b = 0 THEN a ELSE GCD(b, a % b)

\* The square of Math.sqrt(normA) * Math.sqrt(normB).
SqrtProductAA(normA, normB) == normA * normA
SqrtProduct(normA, normB) == normA * normB

\* dotProduct / denominator, given the denominator's square: IEEE division,
\* where x / 0 is NaN for x = 0 and an infinity otherwise.
Divide(dotProduct, denSquared) ==
    IF denSquared = 0
    THEN IF dotProduct = 0 THEN NaN ELSE Infinity(Sign(dotProduct))
    ELSE LET sq == dotProduct * dotProduct
             g == GCD(denSquared, sq)
         IN Finite(Sign(dotProduct), sq \div g, denSquared \div g)

\* The for loop of cosineSimilarity, from index i on (1-based).
RECURSIVE CosineLoop(_, _, _, _)
CosineLoop(A, B, i, acc) ==
    IF i > Len(A) THEN acc
    ELSE CosineLoop(A, B, i + 1,
                    [dotProduct |-> acc.dotProduct + A[i] * B[i],
                     normA |-> acc.normA + A[i] * A[i],
                     normB |-> acc.normB + B[i] * B[i]])

NoScoreError == [name |-> "", message |-> <<>>]
ScorePending == [kind |-> "pending", value |-> NaN, error |-> NoScoreError]
ScoreReturn(v) == [kind |-> "return", value |-> v, error |-> NoScoreError]
ScoreThrow(message) ==
    [kind |-> "throw", value |-> NaN, error |-> [name |-> "Error", message |-> message]]

DimensionMessage == <<"Vectors", "must", "have", "the", "same", "dimensions">>

cosineSimilarityUnchecked(A, B) ==
    LET acc == CosineLoop(A, B, 1, [dotProduct |-> 0, normA |-> 0, normB |-> 0])
    IN IF Len(A) > Len(B) THEN ScoreReturn(NaN)
       ELSE ScoreReturn(Divide(acc.dotProduct, SqrtProduct(acc.normA, acc.normB)))

cosineSimilarity(A, B) ==
    IF Len(A) # Len(B)
    THEN ScoreThrow(DimensionMessage)
    ELSE LET acc == CosineLoop(A, B, 1, [dotProduct |-> 0, normA |-> 0, normB |-> 0])
         IN ScoreReturn(Divide(acc.dotProduct, SqrtProduct(acc.normA, acc.normB)))

----
\* embeddings.embedDocuments: Promise.all(texts.map(fetchGithubEmbedding)).

BatchPending == [kind |-> "pending", value |-> <<>>, error |-> NoError]
BatchResolved(vs) == [kind |-> "resolved", value |-> vs, error |-> NoError]
BatchRejected(e) == [kind |-> "rejected", value |-> <<>>, error |-> e]

NewCall(text, slot) ==
    [text |-> text, slot |-> slot, requests |-> 1, reply |-> NoReply, outcome |-> Pending]

\* texts.map(fetchGithubEmbedding): one call, hence one request, per text,
\* all issued before any reply is awaited.
MapFetch(texts) == [i \in 1..Len(texts) |-> NewCall(texts[i], i)]

\* Promise.all when the promise of input position idx settles with outcome:
\* the new slots, count of fulfilled slots, and state of the combined promise.
PromiseAllSettleArrivalOrder(slots, count, result, idx, outcome) ==
    IF outcome.kind = "throw"
    THEN [slots |-> slots, count |-> count,
          result |-> IF result.kind = "pending" THEN BatchRejected(outcome.error)
                     ELSE result]
    ELSE LET s == [slots EXCEPT ![count + 1] = outcome]
         IN [slots |-> s, count |-> count + 1,
             result |-> IF result.kind = "pending" /\ count + 1 = Len(slots)
                        THEN BatchResolved([i \in 1..Len(s) |-> s[i].value])
                        ELSE result]

PromiseAllSettle(slots, count, result, idx, outcome) ==
    IF outcome.kind = "throw"
    THEN [slots |-> slots, count |-> count,
          result |-> IF result.kind = "pending" THEN BatchRejected(outcome.error)
                     ELSE result]
    ELSE LET s == [slots EXCEPT ![idx] = outcome]
         IN [slots |-> s, count |-> count + 1,
             result |-> IF result.kind = "pending" /\ count + 1 = Len(slots)
                        THEN BatchResolved([i \in 1..Len(s) |-> s[i].value])
                        ELSE result]

\* The call embeddings.embedDocuments(texts), up to its await.
EmbedDocumentsCall(texts) ==
    /\ batchTexts' = texts
    /\ calls' = calls \o MapFetch(texts)
    /\ inflight' = inflight \cup { Len(calls) + i : i \in 1..Len(texts) }
    /\ settled' = [i \in 1..Len(texts) |-> Pending]
    /\ arrived' = 0
    /\ batchResult' = IF Len(texts) = 0 THEN BatchResolved(<<>>) ELSE BatchPending

\* The reply to one request of the running embedDocuments call arrives.
EmbedReceive(id, reply) ==
    /\ id \in inflight
    /\ calls[id].slot > 0
    /\ LET outcome == fetchGithubEmbedding(reply)
           after == PromiseAllSettle(settled, arrived, batchResult,
                                     calls[id].slot, outcome)
       IN IF outcome.kind = "retry"
          THEN /\ calls' = [calls EXCEPT ![id].requests = @ + 1]
               /\ console' = console \o outcome.log
               /\ UNCHANGED <<inflight, settled, arrived, batchResult>>
          ELSE /\ calls' = [calls EXCEPT ![id].reply = reply, ![id].outcome = outcome]
               /\ inflight' = inflight \ {id}
               /\ console' = console \o outcome.log
               /\ settled' = after.slots
               /\ arrived' = after.count
               /\ batchResult' = after.result
    /\ UNCHANGED <<script, token, cwd, pc, exitCode, filesRead, storeCreated,
                   memoryVectors, storeBefore, loadIdx, docIds, vectors, sims,
                   batchTexts>>
    /\ UNCHANGED cosineVars

----
\* main of both scripts.

\* !process.env.GITHUB_TOKEN: undefined and the empty string are falsy.
TokenMissingOnlyUndefined(t) == t = "undefined"
TokenMissing(t) == t \in {"undefined", ""}

\* if (docId): null and the empty string are falsy.
Truthy(id) == id \notin {"null", ""}

\* path.join(process.cwd(), fileName)
FilePath(fileName) == cwd \o <<fileName>>

\* The error fs.readFileSync throws for a file it cannot read.
ReadError(filePath) ==
    Throw("Error", <<"ENOENT:", "no", "such", "file", "or", "directory,", "open">>
                   \o filePath, <<>>)

\* The documents loadDocument hands to vectorStore.addDocuments, as texts.
loadDocumentDocsChunked(text) == <<text, text>>
loadDocumentDocs(text) == <<text>>

\* The catch block of loadDocument: what it prints and how loadDocument ends.
loadDocumentCatchRethrow(err, fileName) ==
    [kind |-> "throw", id |-> "null", log |-> <<>>]

loadDocumentCatchReturnsName(err, fileName) ==
    [kind |-> "return", id |-> fileName, log |-> <<Log("loadError", fileName)>>]

loadDocumentCatch(err, fileName) ==
    LET msg == err.message
    IN IF includes(msg, <<"maximum", "context", "length">>)
          \/ includes(toLowerCase(msg), <<"token">>)
       THEN [kind |-> "return", id |-> "null", log |-> <<Log("tooLarge", fileName)>>]
       ELSE [kind |-> "return", id |-> "null", log |-> <<Log("loadError", fileName)>>]

\* MemoryVectorStore.addVectors: one record per document, appended in order.
addVectors(store, vs, texts, fileName) ==
    store \o [i \in 1..Len(vs) |->
                 [content |-> texts[i], embedding |-> vs[i], fileName |-> fileName]]

\* Lines 49-63 and 220-234: the GITHUB_TOKEN check opening main.
CheckToken ==
    /\ pc = "start"
    /\ IF TokenMissing(token)
       THEN /\ console' = console \o <<Log("tokenNotFound", "")>>
            /\ exitCode' = 1
            /\ pc' = "exited"
       ELSE /\ console' = console \o <<Log("tokenLoaded", "")>>
            /\ pc' = IF script = "loader" THEN "createStore" ELSE "loop"
            /\ UNCHANGED exitCode
    /\ UNCHANGED <<script, token, cwd, filesRead, storeCreated, memoryVectors,
                   storeBefore, loadIdx, docIds, vectors, sims>>
    /\ UNCHANGED <<netVars, batchVars, cosineVars>>

\* MemoryVectorStore.fromTexts([], [], embeddings): embeds no text.
CreateStore ==
    /\ pc = "createStore"
    /\ EmbedDocumentsCall(<<>>)
    /\ storeCreated' = TRUE
    /\ memoryVectors' = <<>>
    /\ console' = console \o <<Log("loadingDocuments", "")>>
    /\ loadIdx' = 1
    /\ pc' = "load"
    /\ UNCHANGED <<script, token, cwd, exitCode, filesRead, storeBefore, docIds,
                   vectors, sims>>
    /\ UNCHANGED cosineVars

\* How main goes on when loadDocument ended (it never throws as written; a
\* throw would reject main, which main().catch(console.error) prints).
LoadDocumentEnds(ending) ==
    IF ending.kind = "throw"
    THEN /\ pc' = "failed"
         /\ exitCode' = 0
         /\ console' = console \o ending.log \o <<Log("mainRejected", "")>>
         /\ UNCHANGED docIds
    ELSE /\ pc' = "afterLoad"
         /\ docIds' = [docIds EXCEPT ![loadIdx] = ending.id]
         /\ console' = console \o ending.log
         /\ UNCHANGED exitCode

\* loadDocument, from its call to the await of vectorStore.addDocuments (or
\* to its end, when the file cannot be read).
LoadDocumentStart(readable) ==
    /\ pc = "load"
    /\ storeBefore' = memoryVectors
    /\ LET fileName == FileNames[loadIdx]
       IN IF readable
          THEN /\ filesRead' = filesRead \cup {fileName}
               /\ EmbedDocumentsCall(loadDocumentDocs(FileText(fileName)))
               /\ pc' = "awaitAdd"
               /\ UNCHANGED <<exitCode, console, docIds>>
          ELSE /\ LoadDocumentEnds(
                      loadDocumentCatch(ReadError(FilePath(fileName)).error, fileName))
               /\ UNCHANGED <<filesRead, netVars, batchVars>>
    /\ UNCHANGED <<script, token, cwd, storeCreated, memoryVectors, loadIdx,
                   vectors, sims>>
    /\ UNCHANGED cosineVars

\* loadDocument, from the settling of vectorStore.addDocuments to its end.
LoadDocumentResume ==
    /\ pc = "awaitAdd"
    /\ batchResult.kind # "pending"
    /\ LET fileName == FileNames[loadIdx]
       IN IF batchResult.kind = "resolved"
          THEN /\ memoryVectors' =
                      addVectors(memoryVectors, batchResult.value, batchTexts, fileName)
               /\ LoadDocumentEnds(
                      [kind |-> "return", id |-> fileName,
                       log |-> <<Log("loaded", fileName)>>])
          ELSE /\ LoadDocumentEnds(loadDocumentCatch(batchResult.error, fileName))
               /\ UNCHANGED memoryVectors
    /\ UNCHANGED <<script, token, cwd, filesRead, storeCreated, storeBefore,
                   loadIdx, vectors, sims>>
    /\ UNCHANGED <<netVars, batchVars, cosineVars>>

\* Lines 131-137 and 138-142: main after a loadDocument returned.
MainAfterLoad ==
    /\ pc = "afterLoad"
    /\ console' = IF Truthy(docIds[loadIdx])
                  THEN console \o <<Log("loadedSuccessfully", FileNames[loadIdx])>>
                  ELSE console
    /\ IF loadIdx = 1
       THEN /\ loadIdx' = 2
            /\ pc' = "load"
            /\ UNCHANGED exitCode
       ELSE /\ pc' = "done"
            /\ exitCode' = 0
            /\ UNCHANGED loadIdx
    /\ UNCHANGED <<script, token, cwd, filesRead, storeCreated, memoryVectors,
                   storeBefore, docIds, vectors, sims>>
    /\ UNCHANGED <<netVars, batchVars, cosineVars>>

\* The inspector's loop body up to its await: one fetchGithubEmbedding call.
InspectorSend ==
    /\ pc = "loop"
    /\ Len(vectors) < Len(sentences)
    /\ console' = console \o <<Log("sentence", sentences[Len(vectors) + 1])>>
    /\ calls' = calls \o <<NewCall(sentences[Len(vectors) + 1], 0)>>
    /\ inflight' = inflight \cup {Len(calls) + 1}
    /\ pc' = "awaitFetch"
    /\ UNCHANGED <<script, token, cwd, exitCode, filesRead, storeCreated,
                   memoryVectors, storeBefore, loadIdx, docIds, vectors, sims>>
    /\ UNCHANGED <<batchVars, cosineVars>>

\* The reply to the inspector's request arrives: vectors.push, or main rejects.
InspectorReceive(id, reply) ==
    /\ pc = "awaitFetch"
    /\ id \in inflight
    /\ calls[id].slot = 0
    /\ LET outcome == fetchGithubEmbeddingInspector(reply)
       IN IF outcome.kind = "retry"
          THEN /\ calls' = [calls EXCEPT ![id].requests = @ + 1]
               /\ console' = console \o outcome.log
               /\ UNCHANGED <<inflight, vectors, pc, exitCode>>
          ELSE /\ calls' = [calls EXCEPT ![id].reply = reply, ![id].outcome = outcome]
               /\ inflight' = inflight \ {id}
               /\ IF outcome.kind = "return"
                  THEN /\ vectors' = Append(vectors, outcome.value)
                       /\ pc' = "loop"
                       /\ console' = console \o outcome.log
                       /\ UNCHANGED exitCode
                  ELSE /\ pc' = "failed"
                       /\ exitCode' = 0
                       /\ console' = console \o outcome.log \o <<Log("mainRejected", "")>>
                       /\ UNCHANGED vectors
    /\ UNCHANGED <<script, token, cwd, filesRead, storeCreated, memoryVectors,
                   storeBefore, loadIdx, docIds, sims>>
    /\ UNCHANGED <<batchVars, cosineVars>>

\* Lines 279-305: the three similarities; a throw rejects main.
InspectorCompare ==
    /\ pc = "loop"
    /\ Len(vectors) = Len(sentences)
    /\ LET sim12 == cosineSimilarity(vectors[1], vectors[2])
           sim23 == cosineSimilarity(vectors[2], vectors[3])
           sim31 == cosineSimilarity(vectors[3], vectors[1])
       IN IF sim12.kind = "throw" \/ sim23.kind = "throw" \/ sim31.kind = "throw"
          THEN /\ pc' = "failed"
               /\ console' = console \o <<Log("mainRejected", "")>>
               /\ UNCHANGED sims
          ELSE /\ pc' = "done"
               /\ sims' = <<sim12.value, sim23.value, sim31.value>>
               /\ console' = console \o <<Log("similarities", "")>>
    /\ exitCode' = 0
    /\ UNCHANGED <<script, token, cwd, filesRead, storeCreated, memoryVectors,
                   storeBefore, loadIdx, docIds, vectors>>
    /\ UNCHANGED <<netVars, batchVars, cosineVars>>

\* process.cwd() may or may not have "token" in it.
WorkingDirs == { <<"home", "app">>, <<"home", "token-lab">> }

InitCommon ==
    /\ pc = "start"
    /\ exitCode = -1
    /\ console = <<>>
    /\ filesRead = {}
    /\ storeCreated = FALSE
    /\ memoryVectors = <<>>
    /\ storeBefore = <<>>
    /\ loadIdx = 0
    /\ docIds = <<"unset", "unset">>
    /\ vectors = <<>>
    /\ sims = <<>>
    /\ calls = <<>>
    /\ inflight = {}
    /\ settled = <<>>
    /\ arrived = 0
    /\ batchResult = BatchPending
    /\ simAB = ScorePending
    /\ simBA = ScorePending

Init ==
    /\ script \in {"loader", "inspector"}
    /\ token \in {"undefined", "", "ghp_secret"}
    /\ cwd \in WorkingDirs
    /\ batchTexts = <<>>
    /\ vectorA = <<>>
    /\ vectorB = <<>>
    /\ InitCommon

Next ==
    \/ CheckToken
    \/ CreateStore
    \/ \E readable \in BOOLEAN : LoadDocumentStart(readable)
    \/ \E id \in inflight, reply \in Replies : EmbedReceive(id, reply)
    \/ LoadDocumentResume
    \/ MainAfterLoad
    \/ InspectorSend
    \/ \E id \in inflight, reply \in Replies : InspectorReceive(id, reply)
    \/ InspectorCompare

Spec == Init /\ [][Next]_vars

----
\* cosineSimilarity on its own: every pair of vectors within the bounds, and
\* the two calls cosineSimilarity(A, B) and cosineSimilarity(B, A).

Components == (0 - MaxVal)..MaxVal
AllVectors == UNION { [1..n -> Components] : n \in 0..MaxDim }

CallAB ==
    /\ simAB.kind = "pending"
    /\ simAB' = cosineSimilarity(vectorA, vectorB)
    /\ UNCHANGED <<vectorA, vectorB, simBA>>
    /\ UNCHANGED <<mainVars, netVars, batchVars>>

CallBA ==
    /\ simBA.kind = "pending"
    /\ simBA' = cosineSimilarity(vectorB, vectorA)
    /\ UNCHANGED <<vectorA, vectorB, simAB>>
    /\ UNCHANGED <<mainVars, netVars, batchVars>>

InitCosine ==
    /\ script = "none"
    /\ token = "ghp_secret"
    /\ cwd = <<"home", "app">>
    /\ batchTexts = <<>>
    /\ vectorA \in AllVectors
    /\ vectorB \in AllVectors
    /\ InitCommon

NextCosine == CallAB \/ CallBA

SpecCosine == InitCosine /\ [][NextCosine]_vars

----
\* embeddings.embedDocuments on its own: every input within the bounds, the
\* replies arriving in any order.

BatchInputs ==
    UNION { [1..n -> {"brochure text", "handbook text"}] : n \in 0..MaxBatch }

\* The replies tried for each request of a batch.
BatchReplies ==
    OkReplies \cup
    { NetworkError,
      [kind |-> "response", status |-> 429, retryAfter |-> NoHeader,
       body |-> <<"Too", "Many", "Requests">>, embedding |-> <<>>] }

BatchCall ==
    /\ pc = "start"
    /\ EmbedDocumentsCall(batchTexts)
    /\ pc' = "awaitBatch"
    /\ UNCHANGED <<script, token, cwd, exitCode, console, filesRead, storeCreated,
                   memoryVectors, storeBefore, loadIdx, docIds, vectors, sims>>
    /\ UNCHANGED cosineVars

InitBatch ==
    /\ script = "none"
    /\ token = "ghp_secret"
    /\ cwd = <<"home", "app">>
    /\ batchTexts \in BatchInputs
    /\ vectorA = <<>>
    /\ vectorB = <<>>
    /\ InitCommon

NextBatch ==
    \/ BatchCall
    \/ \E id \in inflight, reply \in BatchReplies : EmbedReceive(id, reply)

SpecBatch == InitBatch /\ [][NextBatch]_vars

----
\* Properties.

CredentialAbsent == token \in {"undefined", ""}

Printed(tag, about) == \E n \in 1..Len(console) : console[n] = Log(tag, about)

InStore(fileName) ==
    \E n \in 1..Len(memoryVectors) : memoryVectors[n].fileName = fileName

\* Load k of the loader has ended / has ended in failure; a failure is a file
\* that was not read or a request for its text that threw.
LoadEnded(k) == docIds[k] # "unset"
RequestThrew(k) ==
    \E id \in 1..Len(calls) :
        /\ calls[id].text = FileText(FileNames[k])
        /\ calls[id].outcome.kind = "throw"
LoadFailed(k) == LoadEnded(k) /\ (FileNames[k] \notin filesRead \/ RequestThrew(k))

\* C1: with GITHUB_TOKEN absent or empty, main of either script ends the
\* process with exit status 1 before any work: the only step it takes is the
\* token check, after which nothing runs; no request is ever issued, no
\* vector store created, no document file read and nothing inserted.
C1_MissingTokenAborts ==
    CredentialAbsent =>
        /\ pc \in {"start", "exited"}
        /\ (pc = "start" => exitCode = -1 /\ ENABLED CheckToken)
        /\ (pc = "exited" => exitCode = 1 /\ ~ENABLED Next)
        /\ calls = <<>>
        /\ inflight = {}
        /\ ~storeCreated
        /\ filesRead = {}
        /\ memoryVectors = <<>>

C1_Witness == CredentialAbsent /\ pc = "exited" /\ exitCode = 1 /\ token = ""

\* C2: a failing load never aborts the loader: loadDocument reports the
\* failure and returns null, main is never rejected, and once the first load
\* has ended (however it ended) the second is attempted or is the next step.
C2_LoadFailureNeverAborts ==
    script = "loader" =>
        /\ pc # "failed"
        /\ \A k \in 1..2 :
              LoadFailed(k) =>
                  /\ docIds[k] = "null"
                  /\ Printed("tooLarge", FileNames[k]) \/ Printed("loadError", FileNames[k])
        /\ LoadEnded(1) =>
              \/ loadIdx = 1 /\ pc = "afterLoad" /\ ENABLED MainAfterLoad
              \/ loadIdx = 2 /\ pc = "load" /\ ENABLED LoadDocumentStart(TRUE)
                             /\ ENABLED LoadDocumentStart(FALSE)
              \/ loadIdx = 2 /\ pc \in {"awaitAdd", "afterLoad", "done"}
        /\ pc = "done" => LoadEnded(1) /\ LoadEnded(2)

C2_Witness ==
    /\ script = "loader"
    /\ pc = "done"
    /\ docIds = <<"null", Handbook>>
    /\ \E id \in 1..Len(calls) :
          calls[id].text = FileText(Brochure) /\ calls[id].reply.status = 429

SizeLimitFailure(k) ==
    \E id \in 1..Len(calls) :
        /\ calls[id].text = FileText(FileNames[k])
        /\ calls[id].reply.kind = "response"
        /\ calls[id].reply.status = 413

\* C4: the "document is too large / token limit exceeded" report is printed
\* for a load only when that load failed on a size limit (HTTP 413).
C4_TooLargeOnlyForSizeLimit ==
    \A k \in 1..2 : Printed("tooLarge", FileNames[k]) => SizeLimitFailure(k)

DimensionChecked(A, B, sim) ==
    sim.kind # "pending" =>
        /\ (Len(A) # Len(B)) = (sim.kind = "throw")
        /\ sim.kind = "throw" => sim.error.message = DimensionMessage
        /\ Len(A) = Len(B) => sim.kind = "return"

\* C5: cosineSimilarity throws the dimension error exactly when its
\* arguments differ in length, and then returns no score.
C5_DimensionMismatch ==
    /\ DimensionChecked(vectorA, vectorB, simAB)
    /\ DimensionChecked(vectorB, vectorA, simBA)

C5_Witness ==
    /\ Len(vectorA) = 1
    /\ Len(vectorB) = 2
    /\ simAB.kind = "throw"
    /\ simBA.kind = "throw"

ZeroNorm(v) == \A i \in 1..Len(v) : v[i] = 0

\* C6: when either argument of cosineSimilarity has norm zero (all its
\* components are 0, or it is empty), the function returns the score 0.
C6_ZeroNormScoresZero ==
    (simAB.kind # "pending" /\ Len(vectorA) = Len(vectorB)
        /\ (ZeroNorm(vectorA) \/ ZeroNorm(vectorB)))
    => simAB = ScoreReturn(Zero)

Symmetric ==
    (/\ simAB.kind # "pending"
     /\ simBA.kind # "pending"
     /\ Len(vectorA) = Len(vectorB)
     /\ ~ZeroNorm(vectorA)
     /\ ~ZeroNorm(vectorB))
    => /\ simAB.kind = "return"
       /\ simAB.value.kind = "finite"
       /\ simAB = simBA

\* C7: for equal-length vectors of non-zero norm cosineSimilarity(A, B) and
\* cosineSimilarity(B, A) return the same score, and no call changes A or B.
C7_Symmetry == [](Symmetric) /\ [][vectorA' = vectorA /\ vectorB' = vectorB]_vars

C7_Witness ==
    /\ vectorA = <<1, 1>>
    /\ vectorB = <<1, 0>>
    /\ simAB = ScoreReturn(Finite(1, 1, 2))
    /\ simBA = ScoreReturn(Finite(1, 1, 2))

BatchCallId(i) == Len(calls) - Len(batchTexts) + i

\* C8: when embedDocuments(texts) resolves, its value has one vector per
\* text and the i-th is the one the endpoint sent in reply to the request
\* for texts[i], whatever the order of arrival; when any request of the
\* batch throws, the batch is rejected and yields no vectors.
C8_BatchOrderPreserved ==
    pc = "awaitBatch" =>
        /\ batchResult.kind = "resolved" =>
              /\ Len(batchResult.value) = Len(batchTexts)
              /\ \A i \in 1..Len(batchTexts) :
                    /\ calls[BatchCallId(i)].text = batchTexts[i]
                    /\ calls[BatchCallId(i)].reply.kind = "response"
                    /\ batchResult.value[i] = calls[BatchCallId(i)].reply.embedding
        /\ (\E i \in 1..Len(batchTexts) : calls[BatchCallId(i)].outcome.kind = "throw")
              => batchResult.kind = "rejected" /\ batchResult.value = <<>>
        /\ (\A i \in 1..Len(batchTexts) : calls[BatchCallId(i)].outcome.kind = "return")
              => batchResult.kind = "resolved"

\* Three texts, resolved, the replies differing by position.
C8_Witness ==
    /\ pc = "awaitBatch"
    /\ Len(batchTexts) = 3
    /\ batchTexts[1] = batchTexts[3]
    /\ batchResult.kind = "resolved"
    /\ batchResult.value = << <<1, 0>>, <<0, 1>>, <<1>> >>

OneAtATime ==
    /\ Cardinality(inflight) <= 1
    /\ \A id \in 1..(Len(calls) - 1) : calls[id].outcome.kind # "pending"

\* C9: in every run of either script at most one request is in flight, a
\* request is issued only after every earlier one has completed, and the
\* store is changed only while no request is in flight.
C9_Sequential ==
    /\ [](OneAtATime)
    /\ [][memoryVectors' # memoryVectors => inflight = {} /\ inflight' = {}]_vars

C9_Witness ==
    /\ script = "loader"
    /\ Len(memoryVectors) = 1
    /\ Len(calls) = 2
    /\ inflight = {2}

\* C10: loadDocument returns a non-null identifier exactly when the document
\* is in the store: on success the store is the store before the call plus
\* that one record, on null it is the store before the call; and "loaded
\* successfully" is printed only for documents in the store.
C10_IdIffStored ==
    script = "loader" =>
        /\ \A k \in 1..2 :
              /\ LoadEnded(k) => (Truthy(docIds[k]) = InStore(FileNames[k]))
              /\ ~LoadEnded(k) => ~InStore(FileNames[k])
              /\ Printed("loadedSuccessfully", FileNames[k]) => InStore(FileNames[k])
        /\ (pc = "afterLoad" /\ Truthy(docIds[loadIdx])) =>
              /\ Len(memoryVectors) = Len(storeBefore) + 1
              /\ SubSeq(memoryVectors, 1, Len(storeBefore)) = storeBefore
              /\ memoryVectors[Len(memoryVectors)].fileName = FileNames[loadIdx]
              /\ memoryVectors[Len(memoryVectors)].content = FileText(FileNames[loadIdx])
        /\ (pc = "afterLoad" /\ ~Truthy(docIds[loadIdx])) =>
              memoryVectors = storeBefore

C10_Witness ==
    /\ script = "loader"
    /\ pc = "done"
    /\ docIds = <<Brochure, "null">>
    /\ Len(memoryVectors) = 1
    /\ Printed("loadedSuccessfully", Brochure)
    /\ ~Printed("loadedSuccessfully", Handbook)

====
